---- MODULE Spec2Model ----
(***************************************************************************)
(* Model of mcxToProfile.py: the PayloadDict profile builder, the domain   *)
(* inference getDomainFromPlist, the MCX flattening loop of getMCXData and *)
(* the run of main.                                                        *)
(*                                                                         *)
(* A Python string is a sequence of atoms.  Where the code looks inside a  *)
(* string (file names, the --manage value) the atoms are its characters;   *)
(* identifiers and UUIDs, which the code only concatenates and compares,   *)
(* are sequences of longer atoms.                                          *)
(***************************************************************************)
EXTENDS Integers, Sequences, FiniteSets, TLC

VARIABLES
    data,         \* PayloadDict.data
    gitrev,       \* PayloadDict.gitrev
    created,      \* the arguments PayloadDict.__init__ was called with
    last,         \* the last PayloadDict method called, with its arguments
    saved,        \* the documents writePlist has written, in order
    pc,           \* position of main
    options,      \* optparse's result
    env,          \* the profile main read the identifier from
    locals,       \* main's local variables
    exit_code,    \* the process's exit status, once it has exited
    stderr,       \* whether a diagnostic went to the error stream
    plist_path_or_name,  \* argument of getDomainFromPlist
    domain_info,         \* its result
    triples,      \* two (identifier, uuid, entry uuid) triples
    ids           \* the entry identifiers derived from them

builderVars == <<data, gitrev, created, last, saved>>
mainVars    == <<pc, options, env, locals, exit_code, stderr>>
domainVars  == <<plist_path_or_name, domain_info>>
identVars   == <<triples, ids>>
vars == <<data, gitrev, created, last, saved, pc, options, env, locals,
          exit_code, stderr, plist_path_or_name, domain_info, triples, ids>>

----------------------------------------------------------------------------
(* Strings *)

Max(S) == CHOOSE x \in S : \A y \in S : y <= x
Min(S) == CHOOSE x \in S : \A y \in S : x <= y

RECURSIVE Concat(_)
Concat(ss) == IF ss = <<>> THEN <<>> ELSE Head(ss) \o Concat(Tail(ss))

EndsWith(s, suffix) ==
    /\ Len(s) >= Len(suffix)
    /\ SubSeq(s, Len(s) - Len(suffix) + 1, Len(s)) = suffix

\* str.find: the first index at which sep occurs in s, 0 when it does not
Find(s, sep) ==
    LET occ == {i \in 1..(Len(s) - Len(sep) + 1) : SubSeq(s, i, i + Len(sep) - 1) = sep}
    IN  IF occ = {} THEN 0 ELSE Min(occ)

\* str.split(sep): the pieces of s between the occurrences of sep, left to right
RECURSIVE Split(_, _)
Split(s, sep) ==
    LET i == Find(s, sep)
    IN  IF i = 0 THEN <<s>>
        ELSE <<SubSeq(s, 1, i - 1)>> \o Split(SubSeq(s, i + Len(sep), Len(s)), sep)

\* sep.join(parts)
RECURSIVE Join(_, _)
Join(sep, parts) ==
    IF parts = <<>> THEN <<>>
    ELSE IF Len(parts) = 1 THEN parts[1]
    ELSE parts[1] \o sep \o Join(sep, Tail(parts))

\* os.path.basename: what follows the last "/"
basename(p) ==
    LET slashes == {i \in 1..Len(p) : p[i] = "/"}
        i == IF slashes = {} THEN 0 ELSE Max(slashes)
    IN  SubSeq(p, i + 1, Len(p))

DotPlist == <<".", "p", "l", "i", "s", "t">>
DotByHost == <<".", "B", "y", "H", "o", "s", "t">>
Dot == <<".">>
NL == "\n"

HexDigits == {"0", "1", "2", "3", "4", "5", "6", "7", "8", "9",
              "a", "b", "c", "d", "e", "f", "A", "B", "C", "D", "E", "F"}

----------------------------------------------------------------------------
(* getDomainFromPlist *)

\* s[from..to] is all hex digits
IsHexRun(s, from, to) == \A i \in from..to : s[i] \in HexDigits

\* '\.ByHost' matches s ending at position e
ByHostLiteralAt(s, e) == e >= 7 /\ SubSeq(s, e - 6, e) = DotByHost

\* '\.[0-9a-fA-F]{12}' matches s ending at position e
MacAt(s, e) == e >= 13 /\ s[e - 12] = "." /\ IsHexRun(s, e - 11, e)

\* '\.[0-9a-fA-F]{8}-([0-9a-fA-F]{4}-){3}[0-9a-fA-F]{12}' matches s ending at e
HardwareUUIDAt(s, e) ==
    /\ e >= 37
    /\ s[e - 36] = "."
    /\ IsHexRun(s, e - 35, e - 28) /\ s[e - 27] = "-"
    /\ IsHexRun(s, e - 26, e - 23) /\ s[e - 22] = "-"
    /\ IsHexRun(s, e - 21, e - 18) /\ s[e - 17] = "-"
    /\ IsHexRun(s, e - 16, e - 13) /\ s[e - 12] = "-"
    /\ IsHexRun(s, e - 11, e)

\* the positions at which '$' matches: the end of the string, and just before
\* a newline that is the string's last character
DollarPositions(s) ==
    {Len(s)} \cup (IF Len(s) >= 1 /\ s[Len(s)] = NL THEN {Len(s) - 1} ELSE {})

\* re.search(byhost_pattern, s) finds a match
byhost_match(s) ==
    \E e \in DollarPositions(s) :
        ByHostLiteralAt(s, e) \/ MacAt(s, e) \/ HardwareUUIDAt(s, e)

\* os.path.basename(plist_path_or_name).split('.plist')[0]
plist_file_name(p) == Split(basename(p), DotPlist)[1]

getDomainFromPlist(p) ==
    LET name == plist_file_name(p)
        parts == Split(name, Dot)
    IN  IF byhost_match(name)
        THEN [is_byhost |-> TRUE, name |-> Join(Dot, SubSeq(parts, 1, Len(parts) - 1))]
        ELSE [is_byhost |-> FALSE, name |-> name]

----------------------------------------------------------------------------
(* Python values *)

\* the uuid argument of PayloadDict.__init__ is False or a string
PyFalse == [kind |-> "bool", b |-> FALSE, s |-> <<>>]
PyStr(str) == [kind |-> "str", b |-> FALSE, s |-> str]

\* Python's truth value of such a value: False and '' are false
Truthy(v) == IF v.kind = "bool" THEN v.b ELSE v.s # <<>>

\* the orders in which dict.keys() may list the keys of a dict
KeyOrders(d) ==
    {o \in [1..Cardinality(DOMAIN d) -> DOMAIN d] :
        \A i, j \in DOMAIN o : o[i] = o[j] => i = j}

Always == <<"A", "l", "w", "a", "y", "s">>
Once == <<"O", "n", "c", "e">>
Often == <<"O", "f", "t", "e", "n">>

----------------------------------------------------------------------------
(* PayloadDict *)

\* EntryIdentifier with the document's UUID left out of the format
EntryIdentifierWithoutDocumentUUID(identifier, uuid, entry_uuid) ==
    <<"MCXToProfile", ".alacarte.customsettings.">> \o entry_uuid

\* EntryIdentifier with the entry's own UUID left out of the format
EntryIdentifierWithoutEntryUUID(identifier, uuid, entry_uuid) ==
    <<"MCXToProfile", ".">> \o uuid \o <<".alacarte.customsettings">>

\* "%s.%s.alacarte.customsettings.%s" % ('MCXToProfile', uuid, entry_uuid);
\* identifier is the document's PayloadIdentifier, which the format leaves out
EntryIdentifier(identifier, uuid, entry_uuid) ==
    <<"MCXToProfile", ".">> \o uuid \o <<".alacarte.customsettings.">> \o entry_uuid

\* PayloadDict.__init__ generating a UUID whether or not one was passed
PayloadDictAlwaysGenerates(identifier, uuid, removal_allowed, organization, displayname, new_uuid) ==
    [PayloadVersion |-> 1,
     PayloadOrganization |-> organization,
     PayloadUUID |-> new_uuid,
     PayloadRemovalDisallowed |-> IF removal_allowed THEN FALSE ELSE TRUE,
     PayloadType |-> <<"Configuration">>,
     PayloadScope |-> <<"System">>,
     PayloadDescription |-> <<"Included custom settings:", NL>>,
     PayloadDisplayName |-> displayname,
     PayloadIdentifier |-> identifier,
     PayloadContent |-> <<>>]

\* PayloadDict.__init__; new_uuid is what makeNewUUID returns if it is called
PayloadDict(identifier, uuid, removal_allowed, organization, displayname, new_uuid) ==
    [PayloadVersion |-> 1,
     PayloadOrganization |-> organization,
     PayloadUUID |-> IF Truthy(uuid) THEN uuid.s ELSE new_uuid,
     PayloadRemovalDisallowed |-> IF removal_allowed THEN FALSE ELSE TRUE,
     PayloadType |-> <<"Configuration">>,
     PayloadScope |-> <<"System">>,
     PayloadDescription |-> <<"Included custom settings:", NL>>,
     PayloadDisplayName |-> displayname,
     PayloadIdentifier |-> identifier,
     PayloadContent |-> <<>>]

\* PayloadDomain naming a content dict of several domains after the first
PayloadDomainFirstKey(domains) ==
    IF Len(domains) >= 1 THEN domains[1] ELSE <<"multiple preference domains">>

\* the name _addPayload uses for the content dict, given its keys() list
PayloadDomain(domains) ==
    IF Len(domains) = 1 THEN domains[1] ELSE <<"multiple preference domains">>

\* PayloadDict._addPayload on self.data = d; domains is keys() of the content
\* dict and new_uuid what makeNewUUID returns
_addPayload(d, payload_content_dict, domains, new_uuid) ==
    LET domain == PayloadDomain(domains)
        description ==
            IF Len(domains) = 1
            THEN d.PayloadDescription \o domain \o <<NL>>
            ELSE d.PayloadDescription \o Join(<<NL>>, domains)
        payload_dict ==
            [PayloadVersion |-> 1,
             PayloadUUID |-> new_uuid,
             PayloadEnabled |-> TRUE,
             PayloadType |-> <<"com.apple.ManagedClient.preferences">>,
             PayloadIdentifier |->
                 EntryIdentifier(d.PayloadIdentifier, d.PayloadUUID, new_uuid),
             PayloadContent |-> payload_content_dict]
    IN  [d EXCEPT !.PayloadDescription = description,
                  !.PayloadDisplayName =
                      IF @ = <<>> THEN <<"MCXToProfile: ">> \o domain ELSE @,
                  !.PayloadContent = Append(@, payload_dict)]

\* ManageState forcing the settings for 'Often' as well
ManageStateOftenForced(manage) ==
    IF manage = Always \/ manage = Often THEN "Forced" ELSE "Set-Once"

\* the management state addPayloadFromPlistContents files the settings under
ManageState(manage) == IF manage = Always THEN "Forced" ELSE "Set-Once"

\* the content dict addPayloadFromPlistContents builds (lines 95-115)
PlistPayload(plist_dict, domain, manage, is_byhost, now) ==
    LET state == ManageState(manage)
        dom == IF is_byhost THEN domain \o DotByHost ELSE domain
        settings ==
            IF manage = Once
            THEN [mcx_preference_settings |-> plist_dict, mcx_data_timestamp |-> now]
            ELSE [mcx_preference_settings |-> plist_dict]
    IN  [k \in {dom} |-> [s \in {state} |-> <<settings>>]]

\* the description finalizeAndSave writes out
FinalDescription(d, rev) ==
    IF rev # <<>>
    THEN d.PayloadDescription \o <<NL, "Git revision: ">>
             \o SubSeq(rev, 1, IF Len(rev) < 10 THEN Len(rev) ELSE 10)
    ELSE d.PayloadDescription

----------------------------------------------------------------------------
(* Inputs *)

MaxPayloads == 2
MaxPlistCalls == 1

Identifiers == {<<"com.example.test">>, <<"com.example.other">>}
SuppliedUUIDs == {<<"5D2C6B1A-supplied">>}
\* the values makeNewUUID may return
GeneratedUUIDs == {<<"uuid4-a">>, <<"uuid4-b">>}
UUIDArguments == {PyFalse, PyStr(<<>>)} \cup {PyStr(u) : u \in SuppliedUUIDs}
DisplayNames == {<<>>, <<"Dock settings">>}
GitRevs == {<<>>, <<"0", "f", "3", "a", "9", "c", "1", "d", "7", "e", "4", "b">>}
OutputPaths == {<<"out.mobileconfig">>}

ComDock == <<"c", "o", "m", ".", "d", "o", "c", "k">>
ComFinder == <<"c", "o", "m", ".", "f", "i", "n", "d", "e", "r">>
Domains == {ComDock, ComFinder}
Trees == {[tilesize |-> 48], [autohide |-> TRUE]}
Modes == {Once, Often, Always}
\* what a caller may pass as manage: the three modes and something else
ManageValues == Modes \cup {<<"N", "e", "v", "e", "r">>}
Now == <<"2014-01-01T00:00:00Z">>

\* content dicts as getMCXData extracts them from MCX items: one domain, two
\* domains, none
MCXBodies ==
    {[k \in {ComDock} |-> [s \in {"Forced"} |-> <<[mcx_preference_settings |-> [tilesize |-> 48]]>>]],
     [k \in {ComFinder} |-> [s \in {"Set-Once"} |-> <<[mcx_preference_settings |-> [autohide |-> TRUE]]>>]],
     [k \in {ComDock, ComFinder} |->
         [s \in {"Forced"} |-> <<[mcx_preference_settings |-> [tilesize |-> 48]]>>]],
     <<>>}

NoCall == [op |-> "__init__", plist_dict |-> <<>>, domain |-> <<>>, manage |-> <<>>,
           is_byhost |-> FALSE, mcxdata |-> <<>>, before |-> 0]

----------------------------------------------------------------------------
(* The builder's interface, called in any order on one PayloadDict.         *)
(* finalizeAndSave is the builder's last operation: nothing is called on a  *)
(* PayloadDict once it has been saved.                                      *)

IdleMain ==
    /\ pc = "idle" /\ options = <<>> /\ env = <<>> /\ locals = <<>>
    /\ exit_code = 0 /\ stderr = FALSE
NoDomainInfo == [returned |-> FALSE, is_byhost |-> FALSE, name |-> <<>>,
                 plist_file_name |-> <<>>]
IdleDomain == plist_path_or_name = <<>> /\ domain_info = NoDomainInfo
IdleIdent == triples = <<>> /\ ids = <<>>

Init ==
    /\ \E identifier \in Identifiers, uuid \in UUIDArguments,
          displayname \in DisplayNames, new_uuid \in GeneratedUUIDs :
          /\ data = PayloadDict(identifier, uuid, FALSE, <<>>, displayname, new_uuid)
          /\ created = [identifier |-> identifier, uuid |-> uuid,
                        displayname |-> displayname,
                        generated |-> IF Truthy(uuid) THEN <<>> ELSE new_uuid]
    /\ gitrev \in GitRevs
    /\ last = NoCall
    /\ saved = <<>>
    /\ IdleMain /\ IdleDomain /\ IdleIdent

addPayloadFromPlistContents(plist_dict, domain, manage, is_byhost) ==
    /\ saved = <<>>
    /\ Len(data.PayloadContent) < MaxPayloads
    /\ \E new_uuid \in GeneratedUUIDs :
          LET payload_dict == PlistPayload(plist_dict, domain, manage, is_byhost, Now)
          IN  \E domains \in KeyOrders(payload_dict) :
                  data' = _addPayload(data, payload_dict, domains, new_uuid)
    /\ last' = [NoCall EXCEPT !.op = "addPayloadFromPlistContents",
                              !.plist_dict = plist_dict, !.domain = domain,
                              !.manage = manage, !.is_byhost = is_byhost,
                              !.before = Len(data.PayloadContent)]
    /\ UNCHANGED <<gitrev, created, saved, mainVars, domainVars, identVars>>

addPayloadFromMCX(mcxdata) ==
    /\ saved = <<>>
    /\ Len(data.PayloadContent) < MaxPayloads
    /\ \E new_uuid \in GeneratedUUIDs, domains \in KeyOrders(mcxdata) :
          data' = _addPayload(data, mcxdata, domains, new_uuid)
    /\ last' = [NoCall EXCEPT !.op = "addPayloadFromMCX", !.mcxdata = mcxdata,
                              !.before = Len(data.PayloadContent)]
    /\ UNCHANGED <<gitrev, created, saved, mainVars, domainVars, identVars>>

finalizeAndSave(output_path) ==
    /\ saved = <<>>
    /\ data' = [data EXCEPT !.PayloadDescription = FinalDescription(data, gitrev)]
    /\ saved' = Append(saved, [path |-> output_path, plist |-> data'])
    /\ last' = [NoCall EXCEPT !.op = "finalizeAndSave",
                              !.before = Len(data.PayloadContent)]
    /\ UNCHANGED <<gitrev, created, mainVars, domainVars, identVars>>

Next ==
    \/ \E manage \in ManageValues, is_byhost \in BOOLEAN :
          addPayloadFromPlistContents([tilesize |-> 48], ComDock, manage, is_byhost)
    \/ \E mcxdata \in MCXBodies : addPayloadFromMCX(mcxdata)
    \/ \E output_path \in OutputPaths : finalizeAndSave(output_path)

Spec == Init /\ [][Next]_vars

\* addPayloadFromPlistContents alone, over every tree, domain, mode and
\* is_byhost value
NextPlist ==
    \E plist_dict \in Trees, domain \in Domains, manage \in ManageValues,
       is_byhost \in BOOLEAN :
        /\ Len(data.PayloadContent) < MaxPlistCalls
        /\ addPayloadFromPlistContents(plist_dict, domain, manage, is_byhost)

SpecPlist == Init /\ [][NextPlist]_vars

----------------------------------------------------------------------------
(* Properties of the builder *)

Content == data.PayloadContent

\* C1: after addPayloadFromPlistContents with a mode of Once, Often or Always
\* the profile has one more entry, and that entry's content has one domain
\* key, mapped to one management state, "Forced" exactly for Always and
\* "Set-Once" otherwise, holding a list of one dict with the preference tree
\* under mcx_preference_settings and a mcx_data_timestamp exactly for Once.
PlistPayloadShape ==
    (last.op = "addPayloadFromPlistContents" /\ last.manage \in Modes) =>
        /\ Len(Content) = last.before + 1
        /\ LET body == Content[Len(Content)].PayloadContent
           IN  /\ Cardinality(DOMAIN body) = 1
               /\ \A k \in DOMAIN body :
                    /\ Cardinality(DOMAIN body[k]) = 1
                    /\ ("Forced" \in DOMAIN body[k]) <=> (last.manage = Always)
                    /\ ("Set-Once" \in DOMAIN body[k]) <=> (last.manage # Always)
                    /\ \A s \in DOMAIN body[k] :
                         /\ Len(body[k][s]) = 1
                         /\ "mcx_preference_settings" \in DOMAIN body[k][s][1]
                         /\ body[k][s][1].mcx_preference_settings = last.plist_dict
                         /\ ("mcx_data_timestamp" \in DOMAIN body[k][s][1])
                                <=> (last.manage = Once)
                         /\ DOMAIN body[k][s][1] \subseteq
                                {"mcx_preference_settings", "mcx_data_timestamp"}

PlistPayloadAdded ==
    /\ last.op = "addPayloadFromPlistContents"
    /\ last.manage = Often
    /\ last.is_byhost
    /\ Len(Content) = 1

\* C2: the document's PayloadIdentifier is the identifier the PayloadDict was
\* created with, and its PayloadUUID is the UUID passed at creation when one
\* was passed (a value Python takes as true), otherwise the one generated then.
IdentityKept ==
    /\ data.PayloadIdentifier = created.identifier
    /\ data.PayloadUUID =
           IF Truthy(created.uuid) THEN created.uuid.s ELSE created.generated

SuppliedUUIDSaved ==
    /\ Truthy(created.uuid)
    /\ Len(Content) = MaxPayloads
    /\ saved # <<>>
    /\ saved[1].plist.PayloadUUID = created.uuid.s

\* C8: when the entries' UUIDs are pairwise distinct, so are their
\* PayloadIdentifiers, and none is the document's PayloadIdentifier.
EntryIdentifiersUnique ==
    (\A i, j \in DOMAIN Content :
        i # j => Content[i].PayloadUUID # Content[j].PayloadUUID) =>
        /\ \A i, j \in DOMAIN Content :
              i # j => Content[i].PayloadIdentifier # Content[j].PayloadIdentifier
        /\ \A i \in DOMAIN Content :
              Content[i].PayloadIdentifier # data.PayloadIdentifier

TwoDistinctEntries ==
    /\ Len(Content) = 2
    /\ Content[1].PayloadUUID # Content[2].PayloadUUID
    /\ Content[1].PayloadContent # Content[2].PayloadContent

----------------------------------------------------------------------------
(* getDomainFromPlist on file names and paths *)

MaxSegments == 3

MacAddress == <<".", "0", "0", "1", "1", "2", "2", "A", "A", "b", "b", "c", "c">>
HardwareUUID ==
    <<".", "1", "2", "3", "4", "5", "6", "7", "8", "-", "1", "2", "3", "4", "-",
      "a", "b", "c", "d", "-", "E", "F", "0", "1", "-",
      "1", "2", "3", "4", "5", "6", "7", "8", "9", "0", "1", "2">>
ComX == <<"c", "o", "m", ".", "x">>
DotEd == <<".", "e", "d">>

\* the pieces the file names of the model are made of
Segments == {<<"/">>, ComX, DotEd, DotPlist, DotByHost, MacAddress, HardwareUUID,
             <<NL>>, <<"0">>}

Paths == UNION {{Concat(ss) : ss \in [1..n -> Segments]} : n \in 1..MaxSegments}

InitDomain ==
    /\ plist_path_or_name \in Paths
    /\ domain_info = NoDomainInfo
    /\ data = <<>> /\ gitrev = <<>> /\ created = <<>> /\ last = NoCall /\ saved = <<>>
    /\ IdleMain /\ IdleIdent

\* a call of getDomainFromPlist; the state keeps what it returns and the name
\* it tested
CallGetDomainFromPlist ==
    /\ ~domain_info.returned
    /\ LET info == getDomainFromPlist(plist_path_or_name)
       IN  domain_info' = [returned |-> TRUE, is_byhost |-> info.is_byhost,
                           name |-> info.name,
                           plist_file_name |-> plist_file_name(plist_path_or_name)]
    /\ UNCHANGED <<plist_path_or_name, builderVars, mainVars, identVars>>

NextDomain == CallGetDomainFromPlist

SpecDomain == InitDomain /\ [][NextDomain]_vars

\* what is left of s when its last dot-separated component is removed
WithoutLastComponent(s) ==
    LET dots == {i \in 1..Len(s) : s[i] = "."}
    IN  IF dots = {} THEN <<>> ELSE SubSeq(s, 1, Max(dots) - 1)

ComXPlist == ComX \o DotPlist

\* C3: for a file whose base name is N followed by ".plist", the name tested
\* for the ByHost shapes is N, with only that last ".plist" taken off; and
\* "com.x.plist" gives the domain "com.x", not ByHost.
StripsOnlyTrailingPlist ==
    domain_info.returned =>
        LET base == basename(plist_path_or_name)
        IN  /\ EndsWith(base, DotPlist) =>
                 domain_info.plist_file_name = SubSeq(base, 1, Len(base) - Len(DotPlist))
            /\ plist_path_or_name = ComXPlist =>
                 (domain_info.name = ComX /\ ~domain_info.is_byhost)

\* C4: a tested name ending in ".ByHost", in a dot and 12 hex digits or in a
\* dot and an 8-4-4-4-12 hex token gives is_byhost true and the name without
\* its last dot-separated component; any other name gives is_byhost false and
\* the name itself.
ByHostExactlyOnSuffix ==
    domain_info.returned =>
        LET name == domain_info.plist_file_name
            ends == \/ ByHostLiteralAt(name, Len(name))
                    \/ MacAt(name, Len(name))
                    \/ HardwareUUIDAt(name, Len(name))
        IN  IF ends
            THEN domain_info.is_byhost /\ domain_info.name = WithoutLastComponent(name)
            ELSE ~domain_info.is_byhost /\ domain_info.name = name

----------------------------------------------------------------------------
(* The identifier of a payload entry *)

DocumentUUIDs == SuppliedUUIDs \cup GeneratedUUIDs
Triples == Identifiers \X DocumentUUIDs \X GeneratedUUIDs

InitIdent ==
    /\ triples \in Triples \X Triples
    /\ ids = <<>>
    /\ data = <<>> /\ gitrev = <<>> /\ created = <<>> /\ last = NoCall /\ saved = <<>>
    /\ IdleMain /\ IdleDomain

\* the PayloadIdentifier of the entry _addPayload appends to a PayloadDict
\* created with the identifier and UUID of t, when makeNewUUID returns t[3]
AppendedIdentifier(t) ==
    LET d == PayloadDict(t[1], PyStr(t[2]), FALSE, <<>>, <<>>, t[2])
        body == PlistPayload([tilesize |-> 48], ComDock, Always, FALSE, Now)
    IN  _addPayload(d, body, <<ComDock>>, t[3]).PayloadContent[1].PayloadIdentifier

AppendToBoth ==
    /\ ids = <<>>
    /\ ids' = <<AppendedIdentifier(triples[1]), AppendedIdentifier(triples[2])>>
    /\ UNCHANGED <<triples, builderVars, mainVars, domainVars>>

NextIdent == AppendToBoth

SpecIdent == InitIdent /\ [][NextIdent]_vars

\* the two triples differ in component k and in no other
DifferOnlyIn(k) ==
    \A i \in 1..3 : (triples[1][i] # triples[2][i]) <=> (i = k)

\* C9 as the spec states it: equal triples give equal entry identifiers, and
\* changing the document identifier, the document UUID or the entry UUID
\* alone changes the entry identifier.
IdentifierDependsOnAllThree ==
    ids # <<>> =>
        /\ triples[1] = triples[2] => ids[1] = ids[2]
        /\ \A k \in 1..3 : DifferOnlyIn(k) => ids[1] # ids[2]

\* C9 as the code has it: equal triples give equal entry identifiers, changing
\* the document UUID or the entry UUID alone changes the entry identifier,
\* and changing the document identifier alone does not.
IdentifierDependsOnUUIDs ==
    ids # <<>> =>
        /\ triples[1] = triples[2] => ids[1] = ids[2]
        /\ \A k \in 2..3 : DifferOnlyIn(k) => ids[1] # ids[2]
        /\ DifferOnlyIn(1) => ids[1] = ids[2]

SameUUIDsOtherDocument ==
    /\ ids # <<>>
    /\ DifferOnlyIn(1)
    /\ ids[1] = ids[2]

----------------------------------------------------------------------------
(* main *)

MaxPlists == 2
MaxItems == 3

Lowercase == <<"a", "b", "c", "d", "e", "f", "g", "h", "i", "j", "k", "l", "m",
               "n", "o", "p", "q", "r", "s", "t", "u", "v", "w", "x", "y", "z">>
Uppercase == <<"A", "B", "C", "D", "E", "F", "G", "H", "I", "J", "K", "L", "M",
               "N", "O", "P", "Q", "R", "S", "T", "U", "V", "W", "X", "Y", "Z">>

\* str.upper and str.lower on one character
Upper(c) ==
    IF \E i \in DOMAIN Lowercase : Lowercase[i] = c
    THEN Uppercase[CHOOSE i \in DOMAIN Lowercase : Lowercase[i] = c]
    ELSE c
Lower(c) ==
    IF \E i \in DOMAIN Uppercase : Uppercase[i] = c
    THEN Lowercase[CHOOSE i \in DOMAIN Uppercase : Uppercase[i] = c]
    ELSE c

\* options.manage[0].upper() + options.manage[1:].lower(), for a non-empty value
Capitalized(m) == <<Upper(m[1])>> \o [i \in 1..(Len(m) - 1) |-> Lower(m[i + 1])]

\* the manage main passes on when --plist is given (lines 304-308)
ManageOf(option) == IF option = <<>> THEN Always ELSE Capitalized(option)

\* the values of the command line; <<>> is an option that was not given
ManageOptions == {<<>>, <<"o", "n", "c", "e">>, <<"O", "F", "T", "E", "N">>,
                  <<"A", "l", "w", "a", "y", "s">>, <<"n", "e", "v", "e", "r">>}
PlistPaths == {ComXPlist, <<"/">> \o ComX \o DotByHost \o DotPlist}
PlistOptions == {<<>>} \cup UNION {[1..n -> PlistPaths] : n \in 1..MaxPlists}
DsObjects == {<<"/Local/Default/Computers/foo">>}
ProfilePaths == {<<"old.mobileconfig">>}

\* the items of dsAttrTypeStandard:MCXSettings: a string that is no plist, a
\* plist without mcx_application_data, and plists that carry it
MCXItems ==
    {[decodes |-> FALSE, plist |-> <<>>],
     [decodes |-> TRUE, plist |-> [mcx_other_data |-> <<>>]]}
    \cup {[decodes |-> TRUE, plist |-> [mcx_application_data |-> b]] :
             b \in {c \in MCXBodies : Cardinality(DOMAIN c) = 1}}
MCXSettings == UNION {[1..n -> MCXItems] : n \in 0..MaxItems}

\* a profile file that is not there; also the state before any profile is read
UnreadProfile == [exists |-> FALSE, decodes |-> FALSE, has_keys |-> FALSE,
                  PayloadIdentifier |-> <<>>, PayloadUUID |-> <<>>]

NoLocals == [identifier |-> <<>>, uuid |-> PyFalse, manage |-> <<>>,
             output_file |-> <<>>, plist_index |-> 1, mcx_data_plist |-> <<>>,
             mcx_data |-> <<>>, mcx_index |-> 1, mcx_domain_index |-> 1,
             failure |-> ""]

\* failures that end in sys.exit(-1) after the usage text, in errorAndExit, and
\* in an exception nothing catches
UsageExits == {"unexpected arguments", "identifier options"}
UncaughtExceptions == {"profile undecodable", "dscl output undecodable",
                       "mcx item undecodable"}

\* the exit status of a run that failed with f: exit(-1), or Python's status
\* for a traceback
ExitStatus(f) == IF f \in UncaughtExceptions THEN 1 ELSE 255

\* whether the failure wrote to the error stream: errorAndExit's message or the
\* traceback; print_usage writes to the output stream
WritesStderr(f) == f \notin UsageExits

InitMain ==
    /\ pc = "options"
    /\ options \in [args : BOOLEAN, dsobject : {<<>>} \cup DsObjects,
                    plist : PlistOptions, identifier : {<<>>} \cup {<<"com.example.test">>},
                    identifier_from_profile : {<<>>} \cup ProfilePaths,
                    manage : ManageOptions, output : {<<>>} \cup OutputPaths,
                    displayname : DisplayNames]
    /\ env = UnreadProfile
    /\ locals = NoLocals
    /\ exit_code = 0
    /\ stderr = FALSE
    /\ data = <<>> /\ gitrev = <<>> /\ created = <<>> /\ last = NoCall /\ saved = <<>>
    /\ IdleDomain /\ IdleIdent

\* errorAndExit that prints and returns: the run goes on
ContinueDespiteFailure(next) ==
    /\ pc' = next
    /\ stderr' = (stderr \/ locals'.failure # "")
    /\ UNCHANGED exit_code

\* what a step of main leaves: the run goes on at next, or has exited through
\* errorAndExit, sys.exit or an exception
Continue(next) ==
    IF locals'.failure = ""
    THEN pc' = next /\ UNCHANGED <<exit_code, stderr>>
    ELSE /\ pc' = "exited"
         /\ exit_code' = ExitStatus(locals'.failure)
         /\ stderr' = WritesStderr(locals'.failure)

\* lines 273-293
OptionsFailure(o) ==
    IF o.args THEN "unexpected arguments"
    ELSE IF o.dsobject # <<>> /\ o.plist # <<>> THEN "dsobject and plist"
    ELSE IF o.dsobject = <<>> /\ o.plist = <<>> THEN "no dsobject or plist"
    ELSE IF o.dsobject # <<>> /\ o.manage # <<>> THEN "manage with dsobject"
    ELSE IF \/ (o.identifier = <<>> /\ o.identifier_from_profile = <<>>)
            \/ (o.identifier # <<>> /\ o.identifier_from_profile # <<>>)
         THEN "identifier options"
    ELSE ""

CheckOptions ==
    /\ pc = "options"
    /\ locals' = [locals EXCEPT !.failure = OptionsFailure(options)]
    /\ Continue("identifier")
    /\ UNCHANGED <<options, env, builderVars, domainVars, identVars>>

\* lines 295-301 with getIdentifierFromProfile; profile is what the file at
\* --identifier-from-profile holds
ResolveIdentifier(l, o, profile) ==
    IF o.identifier # <<>>
    THEN [l EXCEPT !.identifier = o.identifier, !.uuid = PyFalse]
    ELSE IF ~profile.exists THEN [l EXCEPT !.failure = "profile missing"]
    ELSE IF ~profile.decodes THEN [l EXCEPT !.failure = "profile undecodable"]
    ELSE IF ~profile.has_keys THEN [l EXCEPT !.failure = "profile without identifier"]
    ELSE [l EXCEPT !.identifier = profile.PayloadIdentifier,
                   !.uuid = PyStr(profile.PayloadUUID)]

Profiles ==
    {UnreadProfile,
     [exists |-> TRUE, decodes |-> FALSE, has_keys |-> FALSE,
      PayloadIdentifier |-> <<>>, PayloadUUID |-> <<>>],
     [exists |-> TRUE, decodes |-> TRUE, has_keys |-> FALSE,
      PayloadIdentifier |-> <<>>, PayloadUUID |-> <<>>]}
    \cup {[exists |-> TRUE, decodes |-> TRUE, has_keys |-> TRUE,
           PayloadIdentifier |-> <<"com.example.other">>, PayloadUUID |-> u] :
             u \in SuppliedUUIDs \cup {<<>>}}

\* lines 303-313
ResolveManageAndOutput(l, o) ==
    [l EXCEPT !.manage = IF o.plist # <<>> THEN ManageOf(o.manage) ELSE <<>>,
              !.output_file = IF o.output # <<>> THEN o.output
                              ELSE <<"cwd/">> \o l.identifier \o <<".mobileconfig">>]

\* the profile is read only when --identifier was not given
Identify ==
    /\ pc = "identifier"
    /\ \E profile \in IF options.identifier # <<>> THEN {UnreadProfile} ELSE Profiles :
          /\ env' = profile
          /\ LET l == ResolveIdentifier(locals, options, profile)
             IN  locals' = IF l.failure = "" THEN ResolveManageAndOutput(l, options)
                           ELSE l
    /\ Continue("construct")
    /\ UNCHANGED <<options, builderVars, domainVars, identVars>>

\* lines 315-319
Construct ==
    /\ pc = "construct"
    /\ \E new_uuid \in GeneratedUUIDs :
          /\ data' = PayloadDict(locals.identifier, locals.uuid, FALSE, <<>>,
                                 options.displayname, new_uuid)
          /\ created' = [identifier |-> locals.identifier, uuid |-> locals.uuid,
                         displayname |-> options.displayname,
                         generated |-> IF Truthy(locals.uuid) THEN <<>> ELSE new_uuid]
    /\ gitrev' \in GitRevs
    /\ pc' = IF options.plist # <<>> THEN "plists" ELSE "dscl"
    /\ UNCHANGED <<last, saved, options, env, locals, exit_code, stderr,
                   domainVars, identVars>>

\* what main finds at a plist path
PlistFiles ==
    {[exists |-> FALSE, decodes |-> FALSE, plist |-> <<>>],
     [exists |-> TRUE, decodes |-> FALSE, plist |-> <<>>]}
    \cup {[exists |-> TRUE, decodes |-> TRUE, plist |-> t] : t \in Trees}

\* lines 323-328
PlistFailure(file) ==
    IF ~file.exists THEN "plist missing"
    ELSE IF ~file.decodes THEN "plist undecodable"
    ELSE ""

\* one turn of the loop of lines 322-334
ReadPlist ==
    /\ pc = "plists"
    /\ \E file \in PlistFiles :
          LET plist_path == options.plist[locals.plist_index]
              source_domain == getDomainFromPlist(plist_path)
              payload_dict == PlistPayload(file.plist, source_domain.name, locals.manage,
                                           source_domain.is_byhost, Now)
          IN  IF PlistFailure(file) # ""
              THEN /\ locals' = [locals EXCEPT !.failure = PlistFailure(file)]
                   /\ UNCHANGED <<data, last>>
              ELSE /\ \E new_uuid \in GeneratedUUIDs, domains \in KeyOrders(payload_dict) :
                         data' = _addPayload(data, payload_dict, domains, new_uuid)
                   /\ last' = [NoCall EXCEPT !.op = "addPayloadFromPlistContents",
                                             !.plist_dict = file.plist,
                                             !.domain = source_domain.name,
                                             !.manage = locals.manage,
                                             !.is_byhost = source_domain.is_byhost,
                                             !.before = Len(data.PayloadContent)]
                   /\ locals' = [locals EXCEPT !.plist_index = @ + 1]
    /\ Continue(IF locals'.plist_index > Len(options.plist) THEN "finalize" ELSE "plists")
    /\ UNCHANGED <<gitrev, created, saved, options, env, domainVars, identVars>>

\* what dscl answers
DsclReplies ==
    {[returncode |-> 1, decodes |-> FALSE, has_settings |-> FALSE, settings |-> <<>>],
     [returncode |-> 0, decodes |-> FALSE, has_settings |-> FALSE, settings |-> <<>>],
     [returncode |-> 0, decodes |-> TRUE, has_settings |-> FALSE, settings |-> <<>>]}
    \cup {[returncode |-> 0, decodes |-> TRUE, has_settings |-> TRUE, settings |-> m] :
             m \in MCXSettings}

\* getMCXData up to its loop (lines 164-188)
ReadMCXSettings(l, reply) ==
    IF reply.returncode # 0 THEN [l EXCEPT !.failure = "dscl error"]
    ELSE IF ~reply.decodes THEN [l EXCEPT !.failure = "dscl output undecodable"]
    ELSE IF ~reply.has_settings THEN [l EXCEPT !.failure = "no mcx_settings"]
    ELSE [l EXCEPT !.mcx_data_plist = reply.settings, !.mcx_data = <<>>]

CallDscl ==
    /\ pc = "dscl"
    /\ \E reply \in DsclReplies : locals' = ReadMCXSettings(locals, reply)
    /\ Continue(IF locals'.mcx_data_plist = <<>> THEN "finalize" ELSE "mcx_items")
    /\ UNCHANGED <<options, env, builderVars, domainVars, identVars>>

\* the loop body with an item that lacks mcx_application_data passed over
MCXItemSkipped(l) ==
    LET mcx_item == l.mcx_data_plist[l.mcx_index]
    IN  IF ~mcx_item.decodes THEN [l EXCEPT !.failure = "mcx item undecodable"]
        ELSE IF "mcx_application_data" \notin DOMAIN mcx_item.plist
        THEN [l EXCEPT !.mcx_index = @ + 1]
        ELSE [l EXCEPT !.mcx_data = Append(@, mcx_item.plist.mcx_application_data),
                       !.mcx_index = @ + 1]

\* one turn of getMCXData's loop (lines 190-197)
MCXItem(l) ==
    LET mcx_item == l.mcx_data_plist[l.mcx_index]
    IN  IF ~mcx_item.decodes THEN [l EXCEPT !.failure = "mcx item undecodable"]
        ELSE IF "mcx_application_data" \notin DOMAIN mcx_item.plist
        THEN [l EXCEPT !.failure = "unexpected mcx_settings format"]
        ELSE [l EXCEPT !.mcx_data = Append(@, mcx_item.plist.mcx_application_data),
                       !.mcx_index = @ + 1]

ReadMCXItem ==
    /\ pc = "mcx_items"
    /\ locals' = MCXItem(locals)
    /\ Continue(IF locals'.mcx_index <= Len(locals'.mcx_data_plist) THEN "mcx_items"
                ELSE IF locals'.mcx_data = <<>> THEN "finalize"
                ELSE "mcx_payloads")
    /\ UNCHANGED <<options, env, builderVars, domainVars, identVars>>

\* one turn of the loop of lines 338-339
AddMCXPayload ==
    /\ pc = "mcx_payloads"
    /\ LET mcx_domain == locals.mcx_data[locals.mcx_domain_index]
       IN  /\ \E new_uuid \in GeneratedUUIDs, domains \in KeyOrders(mcx_domain) :
                 data' = _addPayload(data, mcx_domain, domains, new_uuid)
           /\ last' = [NoCall EXCEPT !.op = "addPayloadFromMCX", !.mcxdata = mcx_domain,
                                     !.before = Len(data.PayloadContent)]
    /\ locals' = [locals EXCEPT !.mcx_domain_index = @ + 1]
    /\ Continue(IF locals'.mcx_domain_index > Len(locals.mcx_data) THEN "finalize"
                ELSE "mcx_payloads")
    /\ UNCHANGED <<gitrev, created, saved, options, env, domainVars, identVars>>

\* line 341, and the end of main
Finalize ==
    /\ pc = "finalize"
    /\ data' = [data EXCEPT !.PayloadDescription = FinalDescription(data, gitrev)]
    /\ saved' = Append(saved, [path |-> locals.output_file, plist |-> data'])
    /\ last' = [NoCall EXCEPT !.op = "finalizeAndSave", !.before = Len(data.PayloadContent)]
    /\ pc' = "done"
    /\ exit_code' = 0
    /\ UNCHANGED <<gitrev, created, options, env, locals, stderr, domainVars, identVars>>

NextMain ==
    \/ CheckOptions
    \/ Identify
    \/ Construct
    \/ ReadPlist
    \/ CallDscl
    \/ ReadMCXItem
    \/ AddMCXPayload
    \/ Finalize

SpecMain == InitMain /\ [][NextMain]_vars

----------------------------------------------------------------------------
(* Properties of main *)

WellFormed(mcx_item) ==
    mcx_item.decodes /\ "mcx_application_data" \in DOMAIN mcx_item.plist

\* getMCXData has returned to main
MCXDataReturned ==
    options.dsobject # <<>> /\ pc \in {"mcx_payloads", "finalize", "done"}

\* C5: when getMCXData returns, every item of the attribute carried
\* mcx_application_data and the list returned holds, item by item and in the
\* items' order, those values; the finished run has appended one entry per
\* item in that order; and with an item that lacks the key getMCXData does
\* not return and nothing is appended or written.
MCXFlatteningAllOrNothing ==
    LET items == locals.mcx_data_plist
    IN  /\ MCXDataReturned =>
              /\ \A i \in DOMAIN items : WellFormed(items[i])
              /\ Len(locals.mcx_data) = Len(items)
              /\ \A i \in DOMAIN items :
                    locals.mcx_data[i] = items[i].plist.mcx_application_data
        /\ (options.dsobject # <<>> /\ pc = "done") =>
              /\ Len(data.PayloadContent) = Len(items)
              /\ \A i \in DOMAIN items :
                    data.PayloadContent[i].PayloadContent
                        = items[i].plist.mcx_application_data
        /\ (\E i \in DOMAIN items :
               items[i].decodes /\ "mcx_application_data" \notin DOMAIN items[i].plist) =>
              /\ ~MCXDataReturned
              /\ data.PayloadContent = <<>>
              /\ saved = <<>>

ThreeItemsFlattened ==
    /\ options.dsobject # <<>>
    /\ pc = "done"
    /\ Len(locals.mcx_data_plist) = 3
    /\ locals.mcx_data[1] # locals.mcx_data[2]
    /\ Len(data.PayloadContent) = 3

\* the number of inputs the command line selects
SelectedInputs ==
    IF options.plist # <<>> THEN Len(options.plist) ELSE Len(locals.mcx_data_plist)

\* C6: the output is written at most once; when it has been written the run
\* is over with status 0, nothing has failed and the document written holds
\* one entry per selected input; and once a validation, the dscl call, a
\* decode or a file check has failed the run has exited with a non-zero
\* status and nothing has been written.
WrittenOnceAfterAllInputs ==
    /\ Len(saved) <= 1
    /\ saved # <<>> =>
          /\ pc = "done"
          /\ exit_code = 0
          /\ locals.failure = ""
          /\ Len(saved[1].plist.PayloadContent) = SelectedInputs
    /\ locals.failure # "" =>
          /\ pc = "exited"
          /\ exit_code # 0
          /\ saved = <<>>
    /\ pc = "exited" => (locals.failure # "" /\ saved = <<>>)

TwoPlistsWritten ==
    /\ pc = "done"
    /\ Len(options.plist) = 2
    /\ options.plist[1] # options.plist[2]
    /\ Len(saved) = 1
    /\ Len(saved[1].plist.PayloadContent) = 2

\* C7: with a --manage value that is, once capitalised, none of Once, Often
\* and Always, no payload is built from a plist, nothing is written and the
\* run does not end successfully.
InvalidModeRejected ==
    (/\ options.plist # <<>>
     /\ options.manage # <<>>
     /\ Capitalized(options.manage) \notin Modes) =>
        /\ last.op # "addPayloadFromPlistContents"
        /\ saved = <<>>
        /\ pc # "done"

====
